---- MODULE Spec2Model ----
(***************************************************************************)
(* Advent of Code 2019, days 1 and 2 (Rust).                               *)
(*   day 1: get_cost, part1, part2 over a list of i32 masses.              *)
(*   day 2: Program::execute (the Intcode interpreter) and part2, the      *)
(*          search over the pairs (i, j) of 0..99 x 0..99.                 *)
(* Memory is a Vec<i32>: a function on 0 .. len-1, as Rust indexes it.     *)
(***************************************************************************)
EXTENDS Integers, Sequences, FiniteSets, TLC

VARIABLES
    input,            \* day 1: the parsed Vec<i32> of masses
    d1_pc,            \* day 1: position in main / part2
    items_done,             \* day 1 part2: how many items the for loop has finished
    next_cost,        \* day 1 part2: local next_cost
    total_cost,       \* day 1 part2: local total_cost
    part1_result,     \* day 1: what part1 returned
    part2_result,     \* day 1: what part2 returned
    added,            \* day 1 part2 (history): the values added to total_cost, in order
    memory,           \* day 2: Program.memory, the base memory
    overflow_checks,  \* the build profile (TRUE: debug, i32 overflow panics; FALSE: it wraps)
    exec,             \* day 2: the frame of the current / last call of execute
    calls,            \* day 2: number of calls of execute made so far
    memory0,          \* day 2 (history): the base memory as constructed
    search            \* day 2: the frame of part2 (the search)

d1vars == <<input, d1_pc, items_done, next_cost, total_cost, part1_result, part2_result, added>>
d2vars == <<memory, overflow_checks, exec, calls, memory0, search>>
vars == <<input, d1_pc, items_done, next_cost, total_cost, part1_result, part2_result, added,
          memory, overflow_checks, exec, calls, memory0, search>>

(***************************************************************************)
(* Bounds of the model.                                                    *)
(***************************************************************************)
MaxMasses == 2      \* longest generated day 1 input
MinMass == 9        \* generated masses range over -MinMass .. MaxMass
MaxMass == 30
MaxCalls == 2       \* calls of execute made in a row on one Program
MaxGenLen == 6      \* longest generated base memory

(***************************************************************************)
(* i32 arithmetic.  TLC's integers are 32 bits wide and do not wrap, so    *)
(* every operator below avoids an intermediate value outside the i32       *)
(* range.                                                                  *)
(***************************************************************************)
I32Max == 2147483647
I32Min == -2147483647 - 1

Abs(x) == IF x < 0 THEN -x ELSE x

\* Rust's integer division: rounds toward zero (d > 0).  For a negative n that
\* is the quotient rounded up.
TruncDiv(n, d) == IF n >= 0 THEN n \div d ELSE (n + (d - 1)) \div d

\* The sum a + b lies outside the i32 range.
AddOverflows(a, b) ==
    \/ b > 0 /\ a > I32Max - b
    \/ b < 0 /\ a < I32Min - b

\* a + b modulo 2^32, as a signed value (i32::wrapping_add).
WrappingAdd(a, b) ==
    IF b > 0 /\ a > I32Max - b THEN (a - I32Max - 1) + (b - I32Max - 1)
    ELSE IF b < 0 /\ a < I32Min - b THEN (a + I32Max + 1) + (b + I32Max + 1)
    ELSE a + b

\* What an i32 computation comes to: a value, or a panic of the thread.
Value(n) == [panic |-> FALSE, val |-> n]
Panic == [panic |-> TRUE, val |-> 0]

\* a + b on i32 under the build profile oc (TRUE: overflow checks on, the
\* addition panics with 'attempt to add with overflow'; FALSE: it wraps).
I32Add(a, b, oc) == IF oc /\ AddOverflows(a, b) THEN Panic ELSE Value(WrappingAdd(a, b))

(***************************************************************************)
(* Day 1.                                                                  *)
(***************************************************************************)
\* get_cost with floor division instead of Rust's truncation.
get_cost_floor(n) == (n \div 3) - 2

\* fn get_cost(n: &i32) -> i32 { return n/3 - 2 }
get_cost(n) == TruncDiv(n, 3) - 2

RECURSIVE SumCosts(_, _, _)
\* input.iter().map(get_cost).sum() over the first n items: the fold
\* ((0 + c1) + c2) + .. + cn of i32 additions, from the left.
SumCosts(v, n, oc) ==
    IF n = 0 THEN Value(0)
    ELSE LET s == SumCosts(v, n - 1, oc)
         IN IF s.panic THEN s ELSE I32Add(s.val, get_cost(v[n]), oc)

\* fn part1(input: &Vec<i32>) -> i32
day1_part1(v, oc) == SumCosts(v, Len(v), oc)

\* A while loop that also lets -1 through.
WhileCond_late(c) == c >= -1

\* A while loop that stops at zero.
WhileCond_strict(c) == c > 0

\* while next_cost >= 0
WhileCond(c) == c >= 0

RECURSIVE FuelChain(_, _, _)
\* The inner loop of part2 run to its end from next_cost = c and
\* total_cost = total: the total it leaves, or the panic of its addition.
FuelChain(c, total, oc) ==
    IF WhileCond(c)
    THEN LET s == I32Add(total, c, oc)
         IN IF s.panic THEN s ELSE FuelChain(get_cost(c), s.val, oc)
    ELSE Value(total)

RECURSIVE FuelFrom(_, _, _, _)
\* The for loop of part2 from item k on, entered with total_cost = total.
FuelFrom(v, k, total, oc) ==
    IF k > Len(v) THEN Value(total)
    ELSE LET s == FuelChain(get_cost(v[k]), total, oc)
         IN IF s.panic THEN s ELSE FuelFrom(v, k + 1, s.val, oc)

\* fn part2(input: &Vec<i32>) -> i32, as a function of its input.
day1_part2(v, oc) == FuelFrom(v, 1, 0, oc)

\* The inputs of day 1: every list of at most MaxMasses masses of
\* -MinMass .. MaxMass, the lists of the puzzle statement, and lists whose
\* sums leave the i32 range.
Masses == (0 - MinMass) .. MaxMass
GenInputs == UNION {[1 .. n -> Masses] : n \in 0 .. MaxMasses}
LargeInputs ==
    {<<I32Max, I32Max, I32Max>>,
     <<I32Max, I32Max, I32Max, I32Max>>,
     <<I32Max, I32Max, I32Max, I32Max, -I32Max>>,
     <<I32Min, I32Min, I32Min, I32Min>>,
     <<I32Min, I32Max>>}
Day1Inputs ==
    GenInputs \cup {<<12, 14, 1969, 100756>>, <<14>>, <<1969>>, <<100756>>} \cup LargeInputs

Day1Idle ==
    /\ input = <<>>
    /\ d1_pc = "off"
    /\ items_done = 0
    /\ next_cost = 0
    /\ total_cost = 0
    /\ part1_result = 0
    /\ part2_result = 0
    /\ added = <<>>

\* main, up to the call of part1: the input is parsed; the program was built
\* under either profile.
Day1Init ==
    /\ input \in Day1Inputs
    /\ overflow_checks \in BOOLEAN
    /\ d1_pc = "part1"
    /\ items_done = 0
    /\ next_cost = 0
    /\ total_cost = 0
    /\ part1_result = 0
    /\ part2_result = 0
    /\ added = <<>>

\* println!("Part 1: {}", part1(&input)); then part2 is entered: total_cost = 0.
Day1Part1 ==
    /\ d1_pc = "part1"
    /\ ~day1_part1(input, overflow_checks).panic
    /\ part1_result' = day1_part1(input, overflow_checks).val
    /\ total_cost' = 0
    /\ d1_pc' = "for"
    /\ UNCHANGED <<input, items_done, next_cost, part2_result, added>>
    /\ UNCHANGED d2vars

\* An addition of part1's sum overflows with overflow checks on: the thread
\* panics, nothing is printed and part2 is never entered.
Day1Part1Panic ==
    /\ d1_pc = "part1"
    /\ day1_part1(input, overflow_checks).panic
    /\ d1_pc' = "panic"
    /\ UNCHANGED <<input, items_done, next_cost, total_cost, part1_result, part2_result, added>>
    /\ UNCHANGED d2vars

\* for item in input { let mut next_cost = get_cost(item);
Day1ForItem ==
    /\ d1_pc = "for"
    /\ items_done < Len(input)
    /\ next_cost' = get_cost(input[items_done + 1])
    /\ d1_pc' = "while"
    /\ UNCHANGED <<input, items_done, total_cost, part1_result, part2_result, added>>
    /\ UNCHANGED d2vars

\* while next_cost >= 0 { total_cost += next_cost; next_cost = get_cost(&next_cost); }
Day1WhileBody ==
    /\ d1_pc = "while"
    /\ WhileCond(next_cost)
    /\ ~I32Add(total_cost, next_cost, overflow_checks).panic
    /\ total_cost' = I32Add(total_cost, next_cost, overflow_checks).val
    /\ added' = Append(added, next_cost)
    /\ next_cost' = get_cost(next_cost)
    /\ UNCHANGED <<input, d1_pc, items_done, part1_result, part2_result>>
    /\ UNCHANGED d2vars

\* total_cost += next_cost overflows with overflow checks on: the thread
\* panics and part2 never returns.
Day1WhilePanic ==
    /\ d1_pc = "while"
    /\ WhileCond(next_cost)
    /\ I32Add(total_cost, next_cost, overflow_checks).panic
    /\ d1_pc' = "panic"
    /\ UNCHANGED <<input, items_done, next_cost, total_cost, part1_result, part2_result, added>>
    /\ UNCHANGED d2vars

\* The while condition fails: the for loop goes to the next item.
Day1WhileExit ==
    /\ d1_pc = "while"
    /\ ~WhileCond(next_cost)
    /\ items_done' = items_done + 1
    /\ d1_pc' = "for"
    /\ UNCHANGED <<input, next_cost, total_cost, part1_result, part2_result, added>>
    /\ UNCHANGED d2vars

\* The for loop is over: part2 returns total_cost.
Day1Return ==
    /\ d1_pc = "for"
    /\ items_done >= Len(input)
    /\ part2_result' = total_cost
    /\ d1_pc' = "done"
    /\ UNCHANGED <<input, items_done, next_cost, total_cost, part1_result, added>>
    /\ UNCHANGED d2vars

(***************************************************************************)
(* Day 2: i32 multiplication as the two build profiles compile it          *)
(* (std::ops::Mul::mul on i32), and the operation of an instruction.       *)
(***************************************************************************)

\* The product a * b lies outside the i32 range.
MulOverflows(a, b) ==
    IF a = 0 \/ b = 0 THEN FALSE
    ELSE IF a = I32Min THEN b # 1
    ELSE IF b = I32Min THEN a # 1
    ELSE LET x == Abs(a)
             y == Abs(b)
             q == I32Max \div y
         IN IF x <= q THEN FALSE
            ELSE ~((a < 0) # (b < 0) /\ x = q + 1 /\ I32Max % y = y - 1)

\* x * y modulo 2^16 for x, y in 0 .. 65535.
MulMod16(x, y) == (x * (y % 256) + ((x * (y \div 256)) % 256) * 256) % 65536

\* a * b modulo 2^32, as a signed value (i32::wrapping_mul), on 16-bit halves.
WrappingMul(a, b) ==
    LET ah == (a \div 65536) % 65536
        al == a % 65536
        bh == (b \div 65536) % 65536
        bl == b % 65536
        t  == al * (bl \div 256)
        lowsum == al * (bl % 256) + (t % 256) * 256
        lo == lowsum % 65536
        hi == ((lowsum \div 65536) + (t \div 256) + MulMod16(ah, bl) + MulMod16(al, bh)) % 65536
    IN (IF hi >= 32768 THEN hi - 65536 ELSE hi) * 65536 + lo

\* enum Opcode
Add == 1
Mult == 2
Terminate == 99

\* The arithmetic of one instruction: [overflow |-> the exact result does not fit,
\* val |-> the value a build without overflow checks computes].
operation(op, a, b) ==
    IF op = Add THEN [overflow |-> AddOverflows(a, b), val |-> WrappingAdd(a, b)]
    ELSE [overflow |-> MulOverflows(a, b), val |-> WrappingMul(a, b)]

(***************************************************************************)
(* Day 2: Program::execute.                                                *)
(* A frame of execute is a record:                                         *)
(*   pc            "idle" (never called), "loop" (at the head of the for   *)
(*                 loop), "ok" (returned Ok), "err" (returned Err),        *)
(*                 "panic" (the thread panicked)                           *)
(*   local_memory  the working copy                                        *)
(*   i             the value the loop's iterator yields next               *)
(*   param1/2      the arguments                                           *)
(*   val           the integer of Ok(..), 0 otherwise                      *)
(*   halted        the loop was left by the break of Terminate             *)
(*   reads         the positions of local_memory read by the last step     *)
(*   writes        the writes to local_memory by instructions, in order,   *)
(*                 each <<position, value>>                                *)
(***************************************************************************)
\* A Vec<i32> from the list of its elements.
Vec(s) == [p \in 0 .. Len(s) - 1 |-> s[p + 1]]

\* Vec::len
MemLen(m) == Cardinality(DOMAIN m)

\* Vec's index check for `v as usize`: a negative i32 converts to a usize of
\* at least 2^63, which no Vec length reaches.
InBounds(m, v) == v >= 0 /\ v < MemLen(m)

\* An index check that wraps a negative index around the end of the Vec.
InBounds_wrapping(m, v) == v >= 0 - MemLen(m) /\ v < MemLen(m)

IdleFrame ==
    [pc |-> "idle", local_memory |-> <<>>, i |-> 0, param1 |-> 0, param2 |-> 0,
     val |-> 0, halted |-> FALSE, reads |-> {}, writes |-> <<>>]

\* A panic unwinds the frame: nothing is returned.
Panicked(e, rd) == [e EXCEPT !.pc = "panic", !.reads = rd]

\* A return of the wrong position: Ok(local_memory[1]).
ReturnOk_pos1(e, rd, brk) ==
    [e EXCEPT !.pc = "ok", !.val = e.local_memory[1], !.halted = brk,
              !.reads = rd \cup {1}]

\* return Ok(local_memory[0])
ReturnOk(e, rd, brk) ==
    [e EXCEPT !.pc = "ok", !.val = e.local_memory[0], !.halted = brk,
              !.reads = rd \cup {0}]

\* An unknown opcode that ends the loop like Terminate instead of failing.
ReturnErr_asOk(e, rd) == ReturnOk(e, rd, FALSE)

\* return Err("Bad Opcode".to_string())
ReturnErr(e, rd) == [e EXCEPT !.pc = "err", !.reads = rd]

\* let mut local_memory = self.memory.clone(); local_memory[1] = param1;
\* local_memory[2] = param2; and the construction of the loop's iterator.
Start(mem, param1, param2) ==
    LET e == [IdleFrame EXCEPT !.param1 = param1, !.param2 = param2,
                               !.local_memory = mem]
    IN IF ~InBounds(mem, 1) \/ ~InBounds(mem, 2) THEN Panicked(e, {})
       ELSE [e EXCEPT !.pc = "loop",
                      !.local_memory = [mem EXCEPT ![1] = param1, ![2] = param2]]

\* An instruction after which the loop goes on at the next position: a loop
\* without step_by(4).
Instruction_step1(e, op, oc) ==
    LET m == e.local_memory
        i == e.i
    IN IF ~InBounds(m, i + 1) THEN Panicked(e, {i})
       ELSE IF ~InBounds(m, i + 2) THEN Panicked(e, {i, i + 1})
       ELSE IF ~InBounds(m, i + 3) THEN Panicked(e, {i, i + 1, i + 2})
       ELSE LET a == m[i + 1]
                b == m[i + 2]
                out == m[i + 3]
                slots == {i, i + 1, i + 2, i + 3}
            IN IF ~InBounds(m, a) THEN Panicked(e, slots)
               ELSE IF ~InBounds(m, b) THEN Panicked(e, slots \cup {a})
               ELSE LET r == operation(op, m[a], m[b])
                    IN IF oc /\ r.overflow THEN Panicked(e, slots \cup {a, b})
                       ELSE IF ~InBounds(m, out) THEN Panicked(e, slots \cup {a, b})
                       ELSE [e EXCEPT !.local_memory = [m EXCEPT ![out] = r.val],
                                      !.i = i + 1,
                                      !.reads = slots \cup {a, b},
                                      !.writes = Append(e.writes, <<out, r.val>>)]

\* An instruction whose position values count from the end when negative.
Instruction_wrapidx(e, op, oc) ==
    LET m == e.local_memory
        i == e.i
        Idx(v) == IF v < 0 THEN v + MemLen(m) ELSE v
    IN IF ~InBounds(m, i + 1) THEN Panicked(e, {i})
       ELSE IF ~InBounds(m, i + 2) THEN Panicked(e, {i, i + 1})
       ELSE IF ~InBounds(m, i + 3) THEN Panicked(e, {i, i + 1, i + 2})
       ELSE LET a == Idx(m[i + 1])
                b == Idx(m[i + 2])
                out == Idx(m[i + 3])
                slots == {i, i + 1, i + 2, i + 3}
            IN IF ~InBounds(m, a) THEN Panicked(e, slots)
               ELSE IF ~InBounds(m, b) THEN Panicked(e, slots \cup {a})
               ELSE LET r == operation(op, m[a], m[b])
                    IN IF oc /\ r.overflow THEN Panicked(e, slots \cup {a, b})
                       ELSE IF ~InBounds(m, out) THEN Panicked(e, slots \cup {a, b})
                       ELSE [e EXCEPT !.local_memory = [m EXCEPT ![out] = r.val],
                                      !.i = i + 4,
                                      !.reads = slots \cup {a, b},
                                      !.writes = Append(e.writes, <<out, r.val>>)]

\* Lines 39-42 for an Add or Mult at i: the three operand slots, the two operand
\* values, the arithmetic, the store; then the iterator steps by 4.
Instruction(e, op, oc) ==
    LET m == e.local_memory
        i == e.i
    IN IF ~InBounds(m, i + 1) THEN Panicked(e, {i})
       ELSE IF ~InBounds(m, i + 2) THEN Panicked(e, {i, i + 1})
       ELSE IF ~InBounds(m, i + 3) THEN Panicked(e, {i, i + 1, i + 2})
       ELSE LET a == m[i + 1]
                b == m[i + 2]
                out == m[i + 3]
                slots == {i, i + 1, i + 2, i + 3}
            IN IF ~InBounds(m, a) THEN Panicked(e, slots)
               ELSE IF ~InBounds(m, b) THEN Panicked(e, slots \cup {a})
               ELSE LET r == operation(op, m[a], m[b])
                    IN IF oc /\ r.overflow THEN Panicked(e, slots \cup {a, b})
                       ELSE IF ~InBounds(m, out) THEN Panicked(e, slots \cup {a, b})
                       ELSE [e EXCEPT !.local_memory = [m EXCEPT ![out] = r.val],
                                      !.i = i + 4,
                                      !.reads = slots \cup {a, b},
                                      !.writes = Append(e.writes, <<out, r.val>>)]

\* Which case of the loop the frame is in.
Exhausted(e) == e.pc = "loop" /\ e.i >= MemLen(e.local_memory)
AtOpcode(e) == e.pc = "loop" /\ e.i < MemLen(e.local_memory)
Opcode(e) == e.local_memory[e.i]

\* A loop that fetches the three operand slots before it looks at the opcode.
Iteration_eager(e, oc) ==
    IF Exhausted(e) THEN ReturnOk(e, {}, FALSE)
    ELSE IF ~InBounds(e.local_memory, e.i + 3) THEN Panicked(e, {e.i})
    ELSE LET opcode == Opcode(e)
         IN IF opcode = Add \/ opcode = Mult THEN Instruction(e, opcode, oc)
            ELSE IF opcode = Terminate
                 THEN ReturnOk(e, {e.i, e.i + 1, e.i + 2, e.i + 3}, TRUE)
            ELSE ReturnErr(e, {e.i, e.i + 1, e.i + 2, e.i + 3})

\* One turn of `for i in (0..local_memory.len()).step_by(4)`, the return that
\* follows the loop included.
Iteration(e, oc) ==
    IF Exhausted(e) THEN ReturnOk(e, {}, FALSE)
    ELSE LET opcode == Opcode(e)
         IN IF opcode = Add \/ opcode = Mult THEN Instruction(e, opcode, oc)
            ELSE IF opcode = Terminate THEN ReturnOk(e, {e.i}, TRUE)
            ELSE ReturnErr(e, {e.i})

RECURSIVE Run(_, _)
\* The loop run until execute returns or panics.
Run(e, oc) == IF e.pc = "loop" THEN Run(Iteration(e, oc), oc) ELSE e

\* fn execute(&self, param1: i32, param2: i32) -> Result<i32, String>:
\* the last frame of the call.
execute(mem, param1, param2, oc) == Run(Start(mem, param1, param2), oc)

(***************************************************************************)
(* Day 2: the base memories and arguments the model runs execute on.       *)
(***************************************************************************)
\* const DESIRED_RESULT: i32 = 19690720;
DESIRED_RESULT == 19690720

\* for i in 0..100 / for j in 0..100
RangeEnd == 100

\* Every base memory of 2 .. MaxGenLen positions over GenVals; positions 1 and 2,
\* which execute overwrites before it reads anything, hold 0.
GenVals == {-1, 0, 1, 2, 4, 99}
GenPrograms ==
    UNION {{m \in [0 .. n - 1 -> GenVals] : \A p \in {1, 2} \cap (0 .. n - 1) : m[p] = 0}
           : n \in 2 .. MaxGenLen}

\* The example of the puzzle statement and programs with two instructions.
ExamplePrograms ==
    {Vec(<<1, 9, 10, 3, 2, 3, 11, 0, 99, 30, 40, 50>>),
     Vec(<<1, 1, 1, 4, 99, 5, 6, 0, 99>>),
     Vec(<<2, 4, 4, 5, 99, 0>>),
     Vec(<<1, 0, 0, 0, 2, 0, 0, 0>>),
     Vec(<<1, 0, 0, 0, 1, 0>>),
     Vec(<<1, 0, 0, 0, 1, 0, 0>>),
     Vec(<<1, 0, 0, 4, 0, 0, 0, 0, 7>>),
     Vec(<<1, 0, 0, 0, 1, 0, 0, -1>>),
     Vec(<<1, 0, 0, 0, 2, -1, 0, 0>>),
     Vec(<<1, 0, 0, 0, 2, 0, 8, 0>>),
     Vec(<<2, 0, 0, 0, 99, 0, 0, 0, 0, 65536, 65536>>),
     Vec(<<1, 0, 0, 0, 99, 0, 0, 0, 0, 2147483647, 1>>),
     Vec(<<1, 0, 0, 0, 1, 9, 10, 0, 99, -2147483647, -2>>),
     Vec(<<2, 0, 0, 0, 99, 0, 0, 0, 0, -65536, 32768>>)}

Programs == GenPrograms \cup ExamplePrograms

\* The arguments execute is called with: part1's (12, 2), the example's (9, 10),
\* and two pairs inside the short memories.
ParamPairs == {<<0, 0>>, <<3, 4>>, <<9, 10>>, <<12, 2>>}

\* A memory of n positions that is 0 except where the list s = <<p, v>>, .. sets it.
Sparse(n, s) ==
    [p \in 0 .. n - 1 |->
        IF \E k \in 1 .. Len(s) : s[k][1] = p
        THEN s[CHOOSE k \in 1 .. Len(s) : s[k][1] = p][2]
        ELSE 0]

\* The base memories the search is run on.
SearchPrograms ==
    {\* mem[0] = mem[i] + mem[j]: the target at (2, 5), and again at (5, 1)
     Sparse(100, <<<<0, 1>>, <<4, 99>>, <<5, DESIRED_RESULT - 5>>>>),
     \* the target at (0, 5), in a memory of 6 positions
     Vec(<<1, 0, 0, 0, 99, DESIRED_RESULT - 1>>),
     \* halts at once: every pair returns 99
     Vec(<<99, 0, 0>>),
     \* mem[0] = mem[i] + mem[j], never the target
     Sparse(100, <<<<0, 1>>, <<4, 99>>>>),
     \* mem[4] = mem[i] + mem[j] is the second opcode: 3 at (0, 2), a bad opcode,
     \* while (20, 5) would add mem[12] + 5 to the target
     Sparse(21, <<<<0, 1>>, <<3, 4>>, <<5, 12>>, <<6, 2>>, <<8, 99>>,
                  <<12, DESIRED_RESULT - 5>>, <<20, -11>>>>),
     \* a bad opcode at position 0
     Vec(<<7, 0, 0, 0>>),
     \* 5 positions: (0, 5) indexes past the end
     Vec(<<1, 0, 0, 0, 99>>),
     \* mem[0] = mem[i] * mem[j]: 65536 * 65536 at (5, 5)
     Sparse(100, <<<<0, 2>>, <<4, 99>>, <<5, 65536>>>>)}

(***************************************************************************)
(* Day 2: execute as a state machine, one step per turn of its loop.       *)
(***************************************************************************)
SearchOff == [pc |-> "off", i |-> 0, j |-> 0]

Day2Idle ==
    /\ memory = <<>>
    /\ exec = IdleFrame
    /\ calls = 0
    /\ memory0 = <<>>
    /\ search = SearchOff

\* let program = Program{memory: input}; built under either profile.
ExecInit ==
    /\ memory \in Programs
    /\ overflow_checks \in BOOLEAN
    /\ exec = IdleFrame
    /\ calls = 0
    /\ memory0 = memory
    /\ search = SearchOff

\* program.execute(param1, param2) is entered, once the previous call has
\* returned (a panic ends the process): lines 19-21.
Call(param1, param2) ==
    /\ exec.pc \in {"idle", "ok", "err"}
    /\ calls < MaxCalls
    /\ exec' = Start(memory, param1, param2)
    /\ calls' = calls + 1
    /\ UNCHANGED <<memory, overflow_checks, memory0, search>>
    /\ UNCHANGED d1vars

\* A turn of the loop that works on self.memory itself instead of a clone.
ExecStep_shared ==
    /\ exec.pc = "loop"
    /\ exec' = Iteration(exec, overflow_checks)
    /\ memory' = exec'.local_memory
    /\ UNCHANGED <<overflow_checks, calls, memory0, search>>
    /\ UNCHANGED d1vars

\* One turn of the loop of the running call; &self is not written.
ExecStep ==
    /\ exec.pc = "loop"
    /\ exec' = Iteration(exec, overflow_checks)
    /\ UNCHANGED <<memory, overflow_checks, calls, memory0, search>>
    /\ UNCHANGED d1vars

\* The iterator is exhausted: the loop ends and line 45 returns.
ExecExhausted == Exhausted(exec) /\ ExecStep

\* item == Opcode::Terminate: break, and line 45 returns.
ExecTerminate == AtOpcode(exec) /\ Opcode(exec) = Terminate /\ ExecStep

\* Any other item: return Err("Bad Opcode").
ExecBadOpcode == AtOpcode(exec) /\ Opcode(exec) \notin {Add, Mult, Terminate} /\ ExecStep

\* Add or Mult whose indexing and arithmetic succeed: the store of line 42.
ExecInstruction ==
    AtOpcode(exec) /\ Opcode(exec) \in {Add, Mult} /\ ExecStep /\ exec'.pc = "loop"

\* Add or Mult that panics: an index out of bounds, or an overflow under
\* overflow checks.
ExecPanic ==
    AtOpcode(exec) /\ Opcode(exec) \in {Add, Mult} /\ ExecStep /\ exec'.pc = "panic"

Next ==
    \/ \E pp \in ParamPairs : Call(pp[1], pp[2])
    \/ ExecExhausted
    \/ ExecTerminate
    \/ ExecBadOpcode
    \/ ExecInstruction
    \/ ExecPanic

(***************************************************************************)
(* Day 2: part2, the search, one step per turn of its inner loop.          *)
(***************************************************************************)
\* The two ranges stepped in column-major order.
AfterExecute_colmajor(s, r) ==
    IF r.pc = "panic" THEN [s EXCEPT !.pc = "panic"]
    ELSE IF r.pc = "err" THEN [s EXCEPT !.pc = "err"]
    ELSE IF r.val = DESIRED_RESULT THEN [s EXCEPT !.pc = "found"]
    ELSE IF s.i + 1 < RangeEnd THEN [s EXCEPT !.i = s.i + 1]
    ELSE IF s.j + 1 < RangeEnd THEN [s EXCEPT !.j = s.j + 1, !.i = 0]
    ELSE [s EXCEPT !.pc = "notfound"]

\* A search that skips a pair whose execution fails.
AfterExecute_skiperr(s, r) ==
    IF r.pc = "panic" THEN [s EXCEPT !.pc = "panic"]
    ELSE IF r.pc = "ok" /\ r.val = DESIRED_RESULT THEN [s EXCEPT !.pc = "found"]
    ELSE IF s.j + 1 < RangeEnd THEN [s EXCEPT !.j = s.j + 1]
    ELSE IF s.i + 1 < RangeEnd THEN [s EXCEPT !.i = s.i + 1, !.j = 0]
    ELSE [s EXCEPT !.pc = "notfound"]

\* Inclusive ranges: 0..=100.
AfterExecute_inclusive(s, r) ==
    IF r.pc = "panic" THEN [s EXCEPT !.pc = "panic"]
    ELSE IF r.pc = "err" THEN [s EXCEPT !.pc = "err"]
    ELSE IF r.val = DESIRED_RESULT THEN [s EXCEPT !.pc = "found"]
    ELSE IF s.j + 1 <= RangeEnd THEN [s EXCEPT !.j = s.j + 1]
    ELSE IF s.i + 1 <= RangeEnd THEN [s EXCEPT !.i = s.i + 1, !.j = 0]
    ELSE [s EXCEPT !.pc = "notfound"]

\* The rest of the loop body once execute(i, j) has ended in frame r: the `?`,
\* the comparison, and the step of the two ranges.
AfterExecute(s, r) ==
    IF r.pc = "panic" THEN [s EXCEPT !.pc = "panic"]
    ELSE IF r.pc = "err" THEN [s EXCEPT !.pc = "err"]
    ELSE IF r.val = DESIRED_RESULT THEN [s EXCEPT !.pc = "found"]
    ELSE IF s.j + 1 < RangeEnd THEN [s EXCEPT !.j = s.j + 1]
    ELSE IF s.i + 1 < RangeEnd THEN [s EXCEPT !.i = s.i + 1, !.j = 0]
    ELSE [s EXCEPT !.pc = "notfound"]

\* part2(&program) is entered: the first pair is (0, 0).
SearchInit ==
    /\ memory \in SearchPrograms
    /\ overflow_checks \in BOOLEAN
    /\ exec = IdleFrame
    /\ calls = 0
    /\ memory0 = memory
    /\ search = [pc |-> "loop", i |-> 0, j |-> 0]

\* let result = program.execute(i, j)?; if result == DESIRED_RESULT { return }
SearchStep ==
    /\ search.pc = "loop"
    /\ exec' = execute(memory, search.i, search.j, overflow_checks)
    /\ calls' = calls + 1
    /\ search' = AfterExecute(search, exec')
    /\ UNCHANGED <<memory, overflow_checks, memory0>>
    /\ UNCHANGED d1vars

SearchContinue == SearchStep /\ search'.pc = "loop"
SearchFound == SearchStep /\ search'.pc = "found"
SearchErr == SearchStep /\ search'.pc = "err"
SearchPanic == SearchStep /\ search'.pc = "panic"
SearchNotFound == SearchStep /\ search'.pc = "notfound"

NextSearch ==
    \/ SearchContinue
    \/ SearchFound
    \/ SearchErr
    \/ SearchPanic
    \/ SearchNotFound

(***************************************************************************)
(* The specifications: the interpreter, the search, and day 1.             *)
(***************************************************************************)
Init == Day1Idle /\ ExecInit
Spec == Init /\ [][Next]_vars

\* execute runs on one thread with nothing to wait for: a call that has been
\* entered keeps taking turns of its loop.
SpecLive == Spec /\ WF_vars(ExecStep)

InitSearch == Day1Idle /\ SearchInit
SpecSearch == InitSearch /\ [][NextSearch]_vars

InitDay1 == Day1Init /\ Day2Idle
NextDay1 ==
    \/ Day1Part1
    \/ Day1Part1Panic
    \/ Day1ForItem
    \/ Day1WhileBody
    \/ Day1WhilePanic
    \/ Day1WhileExit
    \/ Day1Return
SpecDay1 == InitDay1 /\ [][NextDay1]_vars

\* part2 runs on one thread with nothing to wait for: it keeps taking steps
\* until it has returned.
SpecDay1Live == SpecDay1 /\ WF_vars(NextDay1)

(***************************************************************************)
(* Day 1: the claims.                                                      *)
(***************************************************************************)
\* q is m / 3 rounded toward zero: the remainder m - 3q is smaller than 3 in
\* absolute value and is zero or has the sign of m.
IsTruncQuot(m, q) ==
    LET r == ((m - q) - q) - q
    IN Abs(r) < 3 /\ (r = 0 \/ (r > 0) = (m > 0))

\* cost(m) = (m / 3) - 2, the division rounding toward zero.
RefCost(m) == (CHOOSE q \in {m \div 3, (m \div 3) + 1} : IsTruncQuot(m, q)) - 2

\* The costs of the masses of a list.
RefCosts(v) == [k \in 1 .. Len(v) |-> RefCost(v[k])]

RECURSIVE RefSumHigh(_)
\* The sum of the elements of a sequence is RefSumHigh * 2^16 + RefSumLow:
\* the sums of the elements' high parts and of their low 16 bits.
RefSumHigh(t) == IF t = <<>> THEN 0 ELSE (t[1] \div 65536) + RefSumHigh(Tail(t))

RECURSIVE RefSumLow(_)
RefSumLow(t) == IF t = <<>> THEN 0 ELSE (t[1] % 65536) + RefSumLow(Tail(t))

\* r is the (mathematical) sum of the elements of t.
IsSum(r, t) ==
    /\ r % 65536 = RefSumLow(t) % 65536
    /\ r \div 65536 = RefSumHigh(t) + (RefSumLow(t) \div 65536)

\* The sum of the elements of t is an i32.
SumFits(t) == RefSumHigh(t) + (RefSumLow(t) \div 65536) \in -32768 .. 32767

RECURSIVE RefChain(_)
\* The terms c, cost(c), cost(cost(c)), .. up to, excluding, the first negative one.
RefChain(c) == IF c < 0 THEN <<>> ELSE <<c>> \o RefChain(RefCost(c))

RECURSIVE RefChains(_)
\* The chains of the masses of a list, one after the other.
RefChains(v) ==
    IF v = <<>> THEN <<>> ELSE RefChain(RefCost(v[1])) \o RefChains(Tail(v))

\* The thread panicked inside part1 / inside part2.
Part1Panicked == d1_pc = "panic" /\ day1_part1(input, overflow_checks).panic
Part2Panicked == d1_pc = "panic" /\ ~day1_part1(input, overflow_checks).panic

\* C8: day 1 part2 returns, and when it has returned, the values it added are,
\* mass by mass, the terms of the chain cost(m), cost(cost(m)), .. up to but
\* excluding the first negative term (a zero term is added, a negative one
\* never), and its result is their sum; part2([14]) = 2 and part2([1969]) = 966.
C8_Part2SumsChains ==
    /\ ~Part2Panicked
    /\ d1_pc = "done" =>
        /\ added = RefChains(input)
        /\ IsSum(part2_result, RefChains(input))
        /\ day1_part2(input, overflow_checks) = Value(part2_result)
        /\ \A k \in 1 .. Len(added) : added[k] >= 0
        /\ (input = <<14>> => part2_result = 2)
        /\ (input = <<1969>> => part2_result = 966)

\* Whenever the sum of the chains is an i32, part2 returns it, having added
\* the terms of the chains and nothing else.
Part2SumsChainsWithinI32 ==
    SumFits(RefChains(input)) =>
        /\ ~Part2Panicked
        /\ d1_pc = "done" =>
            /\ added = RefChains(input)
            /\ IsSum(part2_result, RefChains(input))
            /\ day1_part2(input, overflow_checks) = Value(part2_result)
            /\ \A k \in 1 .. Len(added) : added[k] >= 0
            /\ (input = <<14>> => part2_result = 2)
            /\ (input = <<1969>> => part2_result = 966)

\* C8 witness: [30, 5] has the chain 8, 0 (a zero term, then -2) for 30 and a
\* first cost of -1 for 5, which contributes nothing.
C8_Witness ==
    /\ d1_pc = "done"
    /\ input = <<30, 5>>
    /\ added = <<8, 0>>
    /\ part2_result = 8

\* part1 called on a list of one mass m has returned r.
Cost(m, r) == (input = <<m>> /\ d1_pc # "part1") => (d1_pc # "panic" /\ part1_result = r)

\* C9: day 1 part1 returns the sum over the masses of (m / 3) - 2 with the
\* division rounding toward zero, so that a negative mass not divisible by 3
\* costs one more than with floor division; cost(12) = 2, cost(14) = 2,
\* cost(1969) = 654, cost(100756) = 33583, cost(-1) = -2 and
\* part1([12, 14, 1969, 100756]) = 34241.
C9_Part1SumsTruncatedCosts ==
    d1_pc # "part1" =>
        /\ ~Part1Panicked
        /\ IsSum(part1_result, RefCosts(input))
        /\ (d1_pc = "while" /\ input[items_done + 1] < 0) =>
               LET m == input[items_done + 1]
               IN /\ next_cost = RefCost(m)
                  /\ (m % 3 # 0 => next_cost = ((m \div 3) - 2) + 1)
        /\ Cost(12, 2) /\ Cost(14, 2) /\ Cost(1969, 654) /\ Cost(100756, 33583)
        /\ Cost(-1, -2)
        /\ (input = <<12, 14, 1969, 100756>> => part1_result = 34241)

\* Whenever the sum of the costs is an i32 and part1 has returned, it has
\* returned that sum.
Part1SumsCostsWithinI32 ==
    (d1_pc # "part1" /\ ~Part1Panicked /\ SumFits(RefCosts(input))) =>
        /\ IsSum(part1_result, RefCosts(input))
        /\ (d1_pc = "while" /\ input[items_done + 1] < 0) =>
               LET m == input[items_done + 1]
               IN /\ next_cost = RefCost(m)
                  /\ (m % 3 # 0 => next_cost = ((m \div 3) - 2) + 1)
        /\ Cost(12, 2) /\ Cost(14, 2) /\ Cost(1969, 654) /\ Cost(100756, 33583)
        /\ Cost(-1, -2)
        /\ (input = <<12, 14, 1969, 100756>> => part1_result = 34241)

\* C9 witness: part1 has returned -6 = (-2) + (-4) for the masses -1 and -7.
C9_Witness ==
    /\ d1_pc = "for"
    /\ input = <<-1, -7>>
    /\ part1_result = -6

(***************************************************************************)
(* Day 2, execute: the claims.                                             *)
(***************************************************************************)
\* The working memory execute starts from: the base with positions 1 and 2
\* replaced by the arguments.
RefStartMemory(base, p1, p2) ==
    [p \in DOMAIN base |-> IF p = 1 THEN p1 ELSE IF p = 2 THEN p2 ELSE base[p]]

RECURSIVE RefReplay(_, _, _)
\* The memory m after the writes w[k], w[k+1], .. in order.
RefReplay(m, w, k) ==
    IF k > Len(w) THEN m
    ELSE RefReplay([p \in DOMAIN m |-> IF p = w[k][1] THEN w[k][2] ELSE m[p]], w, k + 1)

SpecExample == Vec(<<1, 9, 10, 3, 2, 3, 11, 0, 99, 30, 40, 50>>)

\* C1: a call of execute that returns Ok returns the value at position 0 of the
\* working memory when execution stopped, which is the base with positions 1 and 2
\* replaced by the arguments and then changed by the stores of the executed
\* instructions in order; on the example program, execute(9, 10) returns 3500.
C1_ReturnsPositionZero ==
    exec.pc = "ok" =>
        /\ MemLen(memory0) >= 3
        /\ exec.val = RefReplay(RefStartMemory(memory0, exec.param1, exec.param2),
                                exec.writes, 1)[0]
        /\ exec.local_memory = RefReplay(RefStartMemory(memory0, exec.param1, exec.param2),
                                         exec.writes, 1)
        /\ (memory0 = SpecExample /\ exec.param1 = 9 /\ exec.param2 = 10
                => exec.val = 3500)

\* C1 witness: the example program has returned 3500, its last store being the
\* one to position 0.
C1_Witness ==
    /\ exec.pc = "ok"
    /\ memory0 = SpecExample
    /\ exec.param1 = 9
    /\ exec.param2 = 10
    /\ exec.writes = <<<<3, 70>>, <<0, 3500>>>>
    /\ exec.val = 3500

\* What a call hands to its caller: how it ended and, for Ok, the integer.
Outcome(e) == <<e.pc, IF e.pc = "ok" THEN e.val ELSE 0>>

\* C2: whatever calls of execute were made on a Program, its base memory is the
\* one it was constructed with, and a call that has ended has ended as a first
\* and only call with the same arguments on that Program ends.
C2_BaseMemoryUntouched ==
    /\ memory = memory0
    /\ exec.pc \in {"ok", "err", "panic"} =>
           Outcome(exec) = Outcome(execute(memory0, exec.param1, exec.param2,
                                           overflow_checks))

\* C2 witness: a second call on the same Program has returned Ok after storing to
\* position 0 of its working copy, and the base still holds its own position 0.
C2_Witness ==
    /\ calls = 2
    /\ exec.pc = "ok"
    /\ Len(exec.writes) > 0
    /\ exec.local_memory[0] # memory[0]
    /\ memory = memory0

\* The frame is at an instruction boundary holding none of 1, 2, 99.
AtBadOpcode == AtOpcode(exec) /\ Opcode(exec) \notin {1, 2, 99}

\* C6: a step taken where the value at the instruction pointer is none of 1, 2,
\* 99 returns Err: only the opcode position is read, the working memory and the
\* instruction pointer stay as they are, nothing is stored, and the call neither
\* panics nor returns an integer; the base memory is untouched.
C6_BadOpcodeReturnsErr ==
    [][AtBadOpcode =>
          /\ exec'.pc = "err"
          /\ exec'.reads = {exec.i}
          /\ exec'.local_memory = exec.local_memory
          /\ exec'.writes = exec.writes
          /\ exec'.i = exec.i
          /\ memory' = memory0]_vars

\* C6 witness: Err was returned at instruction pointer 4, after one store.
C6_Witness ==
    /\ exec.pc = "err"
    /\ exec.i = 4
    /\ Len(exec.writes) = 1
    /\ exec.reads = {4}

\* C7 as claimed: execute returns Ok only if a Halt opcode was read at the
\* instruction pointer.
C7_OkOnlyAfterHalt == exec.pc = "ok" => exec.halted

\* The frame is at an instruction boundary holding 99.
AtHalt == AtOpcode(exec) /\ Opcode(exec) = 99

\* C10: a step taken where the opcode at the instruction pointer is 99 returns Ok
\* with the value at position 0: besides position 0 only the opcode position is
\* read (none of ip+1, ip+2, ip+3), nothing is stored, and the instruction
\* pointer does not move on; this also where fewer than 4 positions remain.
C10_HaltStopsAtOnce ==
    [][AtHalt =>
          /\ exec'.pc = "ok"
          /\ exec'.halted
          /\ exec'.val = exec.local_memory[0]
          /\ exec'.reads = {exec.i, 0}
          /\ exec'.reads \cap {exec.i + 1, exec.i + 2, exec.i + 3} = {}
          /\ exec'.local_memory = exec.local_memory
          /\ exec'.writes = exec.writes
          /\ exec'.i = exec.i]_vars

\* C10 witness: Ok was returned from a Halt in the last position of a memory of 5
\* positions, after one instruction.
C10_Witness ==
    /\ exec.pc = "ok"
    /\ exec.halted
    /\ exec.i = 4
    /\ MemLen(exec.local_memory) = 5
    /\ Len(exec.writes) = 1

(***************************************************************************)
(* Day 2, part2 (the search): the claims.                                  *)
(***************************************************************************)
\* The pair tried n-th in row-major order, counting from 0, and its execution.
PairI(n) == n \div RangeEnd
PairJ(n) == n % RangeEnd
Res(n) == execute(memory0, PairI(n), PairJ(n), overflow_checks)

\* The n-th pair executes successfully with a result other than the target.
Miss(n) == Res(n).pc = "ok" /\ Res(n).val # DESIRED_RESULT

\* Every pair before the n-th is a miss.
AllMissBefore(n) == \A k \in 0 .. n - 1 : Miss(k)

\* The place in row-major order of the pair the search frame is at.
Here == RangeEnd * search.i + search.j

\* C3: when the search returns (i, j), execute(i, j) succeeds with the target,
\* every pair before (i, j) in row-major order executes successfully with another
\* result, and the interpreter was invoked for exactly the pairs up to (i, j),
\* the last invocation being that of (i, j).
C3_FirstMatchWins ==
    search.pc = "found" =>
        /\ Res(Here).pc = "ok"
        /\ Res(Here).val = DESIRED_RESULT
        /\ AllMissBefore(Here)
        /\ calls = Here + 1
        /\ exec.param1 = search.i
        /\ exec.param2 = search.j

\* C3 witness: the search has returned (2, 5) although (5, 1) reaches the target
\* as well.
C3_Witness ==
    /\ search.pc = "found"
    /\ search.i = 2
    /\ search.j = 5
    /\ calls = 206
    /\ execute(memory0, 5, 1, overflow_checks).val = DESIRED_RESULT

\* C4: once the search has ended, if some pair fails with the bad-opcode error and
\* every pair before it is a miss, the search has returned that error at that
\* pair and has invoked the interpreter for no later pair.
C4_ErrorAbortsSearch ==
    search.pc \notin {"off", "loop"} =>
        \A n \in 0 .. RangeEnd * RangeEnd - 1 :
            (Res(n).pc = "err" /\ AllMissBefore(n)) =>
                /\ search.pc = "err"
                /\ Here = n
                /\ calls = n + 1
                /\ exec.pc = "err"
                /\ exec.param1 = PairI(n)
                /\ exec.param2 = PairJ(n)

\* C4 witness: the search has failed at (0, 2), where the second opcode is 3,
\* while the later pair (20, 5) produces the target.
C4_Witness ==
    /\ search.pc = "err"
    /\ search.i = 0
    /\ search.j = 2
    /\ exec.i = 4
    /\ execute(memory0, 20, 5, overflow_checks).pc = "ok"
    /\ execute(memory0, 20, 5, overflow_checks).val = DESIRED_RESULT

\* C5: once the search has ended, it has returned "target not found" if and only
\* if all 10,000 pairs are misses; it then has invoked the interpreter 10,000
\* times; and the n-th invocation of the interpreter is always that of the n-th
\* pair of 0..99 x 0..99 in row-major order, so no pair is tried twice and no
\* argument lies outside 0..99.
C5_NotFoundIffAllMiss ==
    /\ search.pc \notin {"off", "loop"} =>
           (search.pc = "notfound" <=> AllMissBefore(RangeEnd * RangeEnd))
    /\ search.pc = "notfound" => calls = 10000
    /\ search.pc = "loop" => calls = Here
    /\ calls > 0 =>
           /\ exec.param1 \in 0 .. 99
           /\ exec.param2 \in 0 .. 99
           /\ 100 * exec.param1 + exec.param2 = calls - 1

\* C5 witness: the search has tried all 10,000 pairs of a program that adds
\* mem[i] + mem[j] and has not found the target.
C5_Witness ==
    /\ search.pc = "notfound"
    /\ calls = 10000
    /\ memory0[0] = 1
    /\ Len(exec.writes) = 1
    /\ exec.param1 = 99
    /\ exec.param2 = 99

(***************************************************************************)
(* Day 2, execute: one Add or Mult instruction.                            *)
(***************************************************************************)
\* The frame is at an instruction boundary holding 1 or 2.
AtInstruction == AtOpcode(exec) /\ Opcode(exec) \in {1, 2}

\* The positions of the working memory.
Positions == 0 .. MemLen(exec.local_memory) - 1

\* The three operand slots of the instruction at the instruction pointer lie
\* in the working memory, and so do the three positions they hold.
AllInRange ==
    /\ exec.i + 3 \in Positions
    /\ exec.local_memory[exec.i + 1] \in Positions
    /\ exec.local_memory[exec.i + 2] \in Positions
    /\ exec.local_memory[exec.i + 3] \in Positions

\* The two operand values of the instruction at the instruction pointer.
OperandA == exec.local_memory[exec.local_memory[exec.i + 1]]
OperandB == exec.local_memory[exec.local_memory[exec.i + 2]]
Destination == exec.local_memory[exec.i + 3]

\* The mathematical sum or product of the operand values lies in the i32 range.
ExactFits ==
    IF Opcode(exec) = 1 THEN ~AddOverflows(OperandA, OperandB)
    ELSE ~MulOverflows(OperandA, OperandB)

\* The mathematical sum or product of the operand values (where it fits).
ExactResult == IF Opcode(exec) = 1 THEN OperandA + OperandB ELSE OperandA * OperandB

\* What C11 says of a step, but for the stored value: the loop goes on 4 positions
\* further, the slots and the operands are what was read, the memory keeps its
\* length and every position other than the destination keeps its value.
StepFrame ==
    /\ exec'.pc = "loop"
    /\ exec'.i = exec.i + 4
    /\ exec'.reads = {exec.i, exec.i + 1, exec.i + 2, exec.i + 3,
                      exec.local_memory[exec.i + 1], exec.local_memory[exec.i + 2]}
    /\ DOMAIN exec'.local_memory = DOMAIN exec.local_memory
    /\ \A p \in Positions \ {Destination} :
           exec'.local_memory[p] = exec.local_memory[p]
    /\ Len(exec'.writes) = Len(exec.writes) + 1

\* C11 as claimed: a step from an Add or Mult whose referenced positions are all
\* in range stores the sum, respectively the product, of the two operand values
\* as read from the working memory before the store, changes no other position
\* nor the length, and advances the instruction pointer by 4.
C11_InstructionStep ==
    [][(AtInstruction /\ AllInRange) =>
          /\ StepFrame
          /\ ExactFits
          /\ exec'.local_memory[Destination] = ExactResult]_vars

\* The same step where the sum or product fits in an i32: there the code does
\* what C11 says.
InstructionStepWithinI32 ==
    [][(AtInstruction /\ AllInRange /\ ExactFits) =>
          /\ StepFrame
          /\ exec'.local_memory[Destination] = ExactResult]_vars

\* C15 as claimed: every value an Add or Mult stores is the mathematical sum or
\* product of its operand values, so no store happens when that lies outside the
\* i32 range, and every Ok value is position 0 of a memory built from such stores.
C15_StoresAreExact ==
    [][(AtInstruction /\ exec'.pc = "loop") =>
          /\ ExactFits
          /\ exec'.local_memory[Destination] = ExactResult]_vars

(***************************************************************************)
(* Day 2, execute: positions outside the working memory.                   *)
(***************************************************************************)
\* C12: a step from an Add or Mult that references a position outside the working
\* memory (an operand slot past the end, or a position value that is negative or
\* not less than the length) panics: the call returns neither Ok nor Err and does
\* not go on, the working memory is left as it is, every position read lies in
\* the working memory, and no negative position value is read as a position.
C12_OutOfRangePanics ==
    [][(AtInstruction /\ ~AllInRange) =>
          /\ exec'.pc = "panic"
          /\ exec'.i = exec.i
          /\ exec'.local_memory = exec.local_memory
          /\ exec'.writes = exec.writes
          /\ exec'.reads \subseteq Positions
          /\ memory' = memory0]_vars

\* C12 witness: the call panicked at instruction pointer 4 on a negative
\* destination, after reading the slots and both operands and storing nothing
\* for that instruction.
C12_Witness ==
    /\ exec.pc = "panic"
    /\ exec.i = 4
    /\ MemLen(exec.local_memory) >= 8
    /\ exec.local_memory[7] < 0
    /\ exec.reads = {4, 5, 6, 7, exec.local_memory[5], exec.local_memory[6]}
    /\ Len(exec.writes) = 1

(***************************************************************************)
(* Day 2, execute: termination.                                            *)
(***************************************************************************)
\* ceil(n / 4)
CeilQuarter(n) == (n + 3) \div 4

\* A call has ended: it returned or panicked.
Ended == exec.pc \in {"ok", "err", "panic"}

\* While the loop runs, the instruction pointer is a multiple of 4 and the number
\* of instructions executed is a quarter of it; where an opcode is read it lies
\* below the length; the memory keeps the length of the base.
LoopShape ==
    exec.pc = "loop" =>
        /\ exec.i % 4 = 0
        /\ exec.i \div 4 = Len(exec.writes)
        /\ exec.i <= 4 * CeilQuarter(MemLen(exec.local_memory))
        /\ MemLen(exec.local_memory) = MemLen(memory0)

\* An ended call has taken at most ceil(length / 4) turns of the loop: the
\* instructions it executed, and one more if it ended at an opcode.
TurnsBounded ==
    (Ended /\ MemLen(memory0) >= 3) =>
        /\ MemLen(exec.local_memory) = MemLen(memory0)
        /\ Len(exec.writes) + (IF exec.i < MemLen(exec.local_memory) THEN 1 ELSE 0)
               <= CeilQuarter(MemLen(exec.local_memory))

\* C13: during a call the instruction pointer takes only the values 0, 4, 8, ..
\* below the constant memory length, a turn of the loop either ends the call or
\* moves it on by exactly 4, and every call that is entered ends, after at most
\* ceil(length / 4) instructions, also when stores overwrite opcodes ahead.
C13_AlwaysTerminates ==
    /\ [](LoopShape /\ TurnsBounded)
    /\ [][exec.pc = "loop" =>
             \/ exec'.pc \in {"ok", "err", "panic"}
             \/ exec'.pc = "loop" /\ exec'.i = exec.i + 4]_vars
    /\ (exec.pc = "loop" ~> Ended)

\* C13 witness: a call has returned Ok after its first instruction stored a new
\* opcode at position 4, which the loop then executed.
C13_Witness ==
    /\ exec.pc = "ok"
    /\ Len(exec.writes) = 2
    /\ exec.writes[1][1] = 4
    /\ exec.local_memory[4] # memory0[4]
    /\ exec.i = 8

(***************************************************************************)
(* Day 1, part2: termination of the chain of costs.                        *)
(***************************************************************************)
\* The chain of every mass ends: cost is applied to the mass itself and then
\* only to a cost that is not negative, each such cost being strictly smaller
\* than the value it was computed from; a negative cost ends the chain without
\* cost being applied to it; the inner loop is always left and part2 ends.
ChainEnds ==
    /\ [][(d1_pc = "for" /\ d1_pc' = "while") =>
             /\ next_cost' = RefCost(input[items_done + 1])
             /\ (input[items_done + 1] >= 0 => next_cost' < input[items_done + 1])]_vars
    /\ [][(d1_pc = "while" /\ next_cost >= 0) =>
             \/ d1_pc' = "panic" /\ next_cost' = next_cost
             \/ /\ d1_pc' = "while"
                /\ next_cost' = RefCost(next_cost)
                /\ next_cost' < next_cost]_vars
    /\ [][(d1_pc = "while" /\ next_cost < 0) =>
             /\ d1_pc' = "for"
             /\ next_cost' = next_cost
             /\ total_cost' = total_cost]_vars
    /\ (d1_pc = "while" ~> d1_pc \in {"for", "panic"})
    /\ <>(d1_pc \in {"done", "panic"})

\* C14: in day 1 part2 the chain of every mass ends (cost applied to the mass
\* and then only to costs that are not negative, each cost strictly smaller than
\* the value it was computed from, the inner loop always left), and the running
\* total never decreases.
C14_ChainTerminates ==
    /\ ChainEnds
    /\ [][total_cost' >= total_cost]_vars

\* The chain of every mass ends, and the running total never decreases by an
\* addition whose sum is an i32.
ChainTerminatesWithinI32 ==
    /\ ChainEnds
    /\ [][~AddOverflows(total_cost, next_cost) => total_cost' >= total_cost]_vars

\* C14 witness: part2 has returned for a negative mass, whose first cost -4 ended
\* its chain at once, and for 30, whose chain is 8, 0.
C14_Witness ==
    /\ d1_pc = "done"
    /\ Len(input) = 2
    /\ input[1] = -7
    /\ input[2] = 30
    /\ added = <<8, 0>>
    /\ next_cost = -2
    /\ part2_result = 8

====
